---- MODULE Spec2Model ----
(***************************************************************************)
(* State-machine model of the dataset upload / preview / commit logic of   *)
(* auto-analyst-frontend/components/chat/ChatInput.tsx.                    *)
(*                                                                         *)
(* One action is one synchronous block of the component: a user event      *)
(* handler up to its first await, the continuation that runs when a        *)
(* network response arrives, or a timer callback.  Every action ends with  *)
(* the re-render and the [fileUpload] effects (restore / persist), which   *)
(* React runs before the next event is handled.  An async handler keeps    *)
(* the values of the render it was started from (sessionId, fileUpload,    *)
(* datasetDescription): they are stored in its task record.  Functional    *)
(* updates (setX(prev => ...)) read the current state instead.             *)
(*                                                                         *)
(* A request is processed by the backend at the moment its response is     *)
(* delivered.  The dialogs are modal: while one is open the controls       *)
(* behind it cannot be clicked.  The file input element is mounted.        *)
(***************************************************************************)
EXTENDS Integers, Sequences, FiniteSets, TLC

\* ------------------------------------------------------------ bounds
\* user-started pipelines that may be in flight at the same time
MaxTasks == 2
\* uploads the backend accepts before it rejects every further one
MaxUploads == 2
\* detached timers of one kind that are tracked as pending
MaxTimers == 1
\* events of one run of the impatient user
MaxRaces == 2
\* events of one run of the patient user
MaxEvents == 4
\* selections of one run of the user who tries every kind of file
MaxPicks == 1
\* events of one run of the user of the two dialogs
MaxDialogEvents == 3
\* events of one run of the user of the sheet selector
MaxSheetEvents == 5
\* events of one run of the user of the sheet selector who does not wait
MaxRushEvents == 4

\* ------------------------------------------------------------ literals
Placeholder == "Please describe what this dataset contains and its purpose"
Sentinel == "Generating description..."
PreviewDataset == "Preview dataset"
UserDesc == "Q1 sales"
GenText == "generated text"
DefaultDesc == "default dataset description"
UserName == <<"Sales">>
DefaultName == <<"Housing">>
CustomDatasetName == <<"Custom Dataset">>

TextCsv == "text/csv"
AppCsv == "application/csv"
XlsxType == "application/vnd.openxmlformats-officedocument.spreadsheetml.sheet"
XlsType == "application/vnd.ms-excel"

NoSession == "none"
Sessions == {"s1", "s2"}

\* an optional value is a sequence of length 0 or 1
Nil == <<>>
Some(x) == <<x>>
IsNil(o) == o = <<>>
Val(o) == o[1]

\* ------------------------------------------------------------ files
\* a File: its name as stem tokens and extension, declared type, size and
\* modification time.  Now stands for the Date.now() a File gets by default.
Now == 2
MkFile(stem, ext, type, size, lm) ==
  [stem |-> stem, ext |-> ext, type |-> type, size |-> size, lastModified |-> lm]

FileA == MkFile(<<"a">>, "csv", TextCsv, 1, 1)
FileB == MkFile(<<"b">>, "xlsx", XlsxType, 1, 1)
FileU == MkFile(<<"u">>, "txt", "text/plain", 1, 1)
\* the file an earlier life of the page committed
FileOld == MkFile(<<"old">>, "csv", TextCsv, 1, 1)
InputFiles == {FileA, FileB, FileU}
\* an empty file whose modification time is the epoch
FileE == MkFile(<<"e">>, "csv", TextCsv, 0, 0)

\* a file of every extension and every declared type
Exts == {"csv", "CSV", "xlsx", "xls", "XLS", "txt", ""}
Types == {TextCsv, AppCsv, XlsxType, XlsType, "text/plain", ""}
AnyFiles == {MkFile(<<"f">>, e, ty, 1, 1) : e \in Exts, ty \in Types}

\* the sheets the backend finds in a spreadsheet
SheetsOf(f) == IF f.stem = <<"b">> THEN <<"Sheet1", "Sheet2">> ELSE <<>>

Lower(e) == CASE e = "CSV" -> "csv" [] e = "XLSX" -> "xlsx" [] e = "XLS" -> "xls"
              [] OTHER -> e

isCSVByExtension(f) == Lower(f.ext) = "csv"
isCSVByType(f) == f.type = TextCsv \/ f.type = AppCsv
isExcelByExtension(f) == Lower(f.ext) = "xlsx" \/ Lower(f.ext) = "xls"
isExcelByType(f) == f.type = XlsxType \/ f.type = XlsType

\* handleFileSelect: the file is refused
Unsupported(f) ==
  /\ ~isCSVByExtension(f)
  /\ ~isExcelByExtension(f)
  /\ (~isCSVByType(f) /\ ~isExcelByType(f) /\ f.type # "")

\* handleFilePreview: the file is taken as CSV
PreviewAcceptsCsv(f) == f.type = TextCsv \/ isCSVByExtension(f)

FullName(f) == IF f.ext = "" THEN f.stem ELSE f.stem \o <<".", f.ext>>
\* file.name.replace('.csv', '')
TempNameCsv(f) == IF f.ext = "csv" THEN f.stem ELSE FullName(f)
\* file.name.replace(/\.(xlsx|xls)$/i, '') + " - " + sheetName
TempNameExcel(f, sheet) ==
  (IF isExcelByExtension(f) THEN f.stem ELSE FullName(f)) \o <<" - ", sheet>>

EndsWithCsv(name) ==
  Len(name) >= 2 /\ name[Len(name) - 1] = "." /\ name[Len(name)] = "csv"
\* (variant for C14: the committed File keeps the name of the selected file)
UpdatedFile_keepsName(name, actual) ==
  MkFile(actual.stem, actual.ext, TextCsv, actual.size, actual.lastModified)
\* the File a commit makes: the dataset name with ".csv", type text/csv
UpdatedFile(name, actual) ==
  IF EndsWithCsv(name)
  THEN MkFile(SubSeq(name, 1, Len(name) - 2), "csv", TextCsv, actual.size,
              actual.lastModified)
  ELSE MkFile(name, "csv", TextCsv, actual.size, actual.lastModified)

\* new File([""], name, {type, lastModified}): no bytes
MockFromInfo(info) == MkFile(info.stem, info.ext, info.type, 0, info.lastModified)
MockCustom(name) == MkFile(name, "csv", TextCsv, 0, Now)

\* ------------------------------------------------------------ records
MkUpload(file, status, msg, isExcel, sheets, sel, id) ==
  [file |-> file, status |-> status, errorMessage |-> msg, isExcel |-> isExcel,
   sheets |-> sheets, selectedSheet |-> sel, dataset_upload_id |-> id]
\* { file, status } as the restores write it
PlainUpload(file, status) == MkUpload(file, status, "", FALSE, <<>>, "", 0)

\* the JSON the persist effect writes
FileInfo(f) ==
  [stem |-> f.stem, ext |-> f.ext, type |-> f.type, lastModified |-> f.lastModified,
   extra |-> Nil]
\* the JSON the commit writes
CommitInfo(f, isExcel, sel) ==
  [stem |-> f.stem, ext |-> f.ext, type |-> f.type, lastModified |-> f.lastModified,
   extra |-> Some([isExcel |-> isExcel, selectedSheet |-> sel])]

\* what the backend serves for a session: the default dataset or an upload
DefaultData == [stem |-> <<"default">>, sheet |-> ""]
DefaultSession ==
  [custom |-> FALSE, name |-> DefaultName, desc |-> DefaultDesc, data |-> DefaultData]

VARIABLES
  fileUpload,              \* Nil or Some(FileUpload)
  filePreview,             \* Nil or Some([data, name, description])
  datasetDescription,      \* [name, description]
  showPreview,
  showSheetSelector,
  showDatasetResetPopup,
  datasetMismatch,
  uploadSuccess,
  isGeneratingDescription,
  errorNotification,       \* "" or the message shown
  sessionId,               \* the session store's id
  lastUploadedFile,        \* localStorage 'lastUploadedFile': Nil or Some(info)
  inputFile,               \* fileInputRef.current.files[0]: Nil or Some(File)
  srv,                     \* backend: session id -> session record
  uploadLog,               \* backend: the files of the accepted uploads, by id
  tasks,                   \* the async handlers waiting for a response
  timers,                  \* the pending timers
  events,                  \* the user and environment events so far
  quiet                    \* no user action since the last pipeline failure

vars == <<fileUpload, filePreview, datasetDescription, showPreview, showSheetSelector,
          showDatasetResetPopup, datasetMismatch, uploadSuccess,
          isGeneratingDescription, errorNotification, sessionId, lastUploadedFile,
          inputFile, srv, uploadLog, tasks, timers, events, quiet>>

\* ------------------------------------------------------------ tasks, timers
\* the projection of the fileUpload a handler was started with
Cap(fu) ==
  IF IsNil(fu) THEN [st |-> "null", isExcel |-> FALSE, sheets |-> <<>>, sel |-> ""]
  ELSE [st |-> Val(fu).status, isExcel |-> Val(fu).isExcel, sheets |-> Val(fu).sheets,
        sel |-> Val(fu).selectedSheet]
NoCap == Cap(Nil)
\* the status alone, for a handler that reads nothing else of its fileUpload
StatusCap(fu) == [NoCap EXCEPT !.st = Cap(fu).st]

\* an async handler waiting at pc for a response.  sid, name, desc and cap are
\* the sessionId, datasetDescription and fileUpload of the render that started
\* it; rsid is the session_id the upload response carried.
MkTask(op, pc, file, sheet, isNew, sid, rsid, name, desc, cap) ==
  [op |-> op, pc |-> pc, file |-> file, sheet |-> sheet, isNew |-> isNew,
   sid |-> sid, rsid |-> rsid, name |-> name, desc |-> desc, cap |-> cap]

EffectOps == {"e1", "e1preview", "e2"}
UserTasks == {t \in tasks : t.op \notin EffectOps /\ t.op # "gen"}
\* a new pipeline may start (the bound on concurrency)
CanStart == Cardinality(UserTasks) < MaxTasks

\* timers: ref is the pending timer errorTimeoutRef points to ("" when it has
\* fired or was cleared); a timer whose handle was overwritten is detached
\* and can no longer be cleared.  clearAll timers unset fileUpload, the record
\* and the notification; notif timers the notification only.
NoTimers ==
  [ref |-> "", detClear |-> 0, detNotif |-> 0, banner |-> 0, settle |-> {}]
Sat(n) == IF n < MaxTimers THEN n + 1 ELSE n
\* clearTimeout(errorTimeoutRef.current)
ClearErrorTimer(tm) == [tm EXCEPT !.ref = ""]
\* errorTimeoutRef.current = setTimeout(..., 5000)
ArmErrorTimer(tm, kind) ==
  [tm EXCEPT !.ref = kind,
             !.detClear = IF tm.ref = "clearAll" THEN Sat(@) ELSE @,
             !.detNotif = IF tm.ref = "notif" THEN Sat(@) ELSE @]
\* setTimeout(() => setUploadSuccess(false), 3000)
ArmBanner(tm) == [tm EXCEPT !.banner = Sat(@)]
\* setTimeout(() => generateDatasetDescription(), 300)
\* the callback keeps the sessionId and the description of its render
ArmSettle(tm, sid, desc) ==
  [tm EXCEPT !.settle = @ \cup {[sid |-> sid, desc |-> desc]}]

\* ------------------------------------------------------------ effects
\* The [fileUpload] effects after a render.  called: the block called
\* setFileUpload; the effects run when the value is a new object.  Persist
\* (535-551): a success fileUpload is written to localStorage.  Restore
\* (435-463) needs fileUpload null with a stored record, which within one
\* lifetime of the component never happens (every block that unsets fileUpload
\* removes the record): it is modelled in Mount.
PersistEffect(called, new, ls) ==
  IF called /\ ~IsNil(new) /\ Val(new).status = "success"
  THEN Some(FileInfo(Val(new).file))
  ELSE ls
SetFileUpload(new, ls) ==
  /\ fileUpload' = new
  /\ lastUploadedFile' = PersistEffect(TRUE, new, ls)
\* setFileUpload(prev => prev ? f(prev) : null)
\* new is the updated record, read only when there is one
UpdateFileUpload(new, ls) ==
  IF IsNil(fileUpload)
  THEN fileUpload' = Nil /\ lastUploadedFile' = ls
  ELSE SetFileUpload(Some(new), ls)

\* the [sessionId] effects (342-432, 466-532): two session-info requests, the
\* second one keeping the fileUpload of the render it was started from
SessionEffects(sid, fu) ==
  IF sid = NoSession THEN {}
  ELSE {MkTask("e1", "info", Nil, "", FALSE, sid, NoSession, <<>>, "", NoCap),
        MkTask("e2", "info", Nil, "", FALSE, sid, NoSession, <<>>, "", StatusCap(fu))}
\* setSessionId(s): the effects run when the id changed
SetSessionId(s, fu, ts) ==
  /\ sessionId' = s
  /\ tasks' = IF s = sessionId THEN ts ELSE ts \cup SessionEffects(s, fu)

\* ------------------------------------------------------------ mount
\* the state after the component mounted with session id sid and record ls
Mount(sid, ls) ==
  /\ fileUpload' = IF IsNil(ls) THEN Nil
                   ELSE Some(PlainUpload(MockFromInfo(Val(ls)), "success"))
  /\ lastUploadedFile' = IF IsNil(ls) THEN Nil ELSE Some(FileInfo(MockFromInfo(Val(ls))))
  /\ filePreview' = Nil
  /\ datasetDescription' = [name |-> <<>>, description |-> ""]
  /\ showPreview' = FALSE
  /\ showSheetSelector' = FALSE
  /\ showDatasetResetPopup' = FALSE
  /\ datasetMismatch' = FALSE
  /\ uploadSuccess' = FALSE
  /\ isGeneratingDescription' = FALSE
  /\ errorNotification' = ""
  /\ sessionId' = sid
  /\ inputFile' = Nil
  /\ tasks' = SessionEffects(sid, Nil)
  /\ timers' = NoTimers
  /\ quiet' = FALSE

\* what an earlier life of the page may have left behind: the record of a
\* committed upload in localStorage, its dataset in the backend session
StoredRecord == FileInfo(UpdatedFile(UserName, FileOld))
StoredSession ==
  [custom |-> TRUE, name |-> UserName, desc |-> UserDesc,
   data |-> [stem |-> FileOld.stem, sheet |-> ""]]

\* the same, of a file whose modification time was the epoch
EpochRecord == FileInfo(UpdatedFile(UserName, MkFile(<<"old">>, "csv", TextCsv, 1, 0)))

Init ==
  /\ lastUploadedFile \in {Nil, Some(StoredRecord)}
  /\ fileUpload = IF IsNil(lastUploadedFile) THEN Nil
                  ELSE Some(PlainUpload(MockFromInfo(Val(lastUploadedFile)), "success"))
  /\ filePreview = Nil
  /\ datasetDescription = [name |-> <<>>, description |-> ""]
  /\ showPreview = FALSE
  /\ showSheetSelector = FALSE
  /\ showDatasetResetPopup = FALSE
  /\ datasetMismatch = FALSE
  /\ uploadSuccess = FALSE
  /\ isGeneratingDescription = FALSE
  /\ errorNotification = ""
  /\ sessionId \in {NoSession, "s1"}
  /\ inputFile = Nil
  /\ srv \in {[s \in Sessions |-> DefaultSession],
              [s \in Sessions |-> IF s = "s1" THEN StoredSession ELSE DefaultSession]}
  /\ uploadLog = <<>>
  /\ tasks = SessionEffects(sessionId, Nil)
  /\ timers = NoTimers
  /\ events = 0
  /\ quiet = FALSE

\* the start of the patient user's run: the record may also be the epoch one
SeqInit ==
  /\ lastUploadedFile \in {Nil, Some(StoredRecord), Some(EpochRecord)}
  /\ fileUpload = IF IsNil(lastUploadedFile) THEN Nil
                  ELSE Some(PlainUpload(MockFromInfo(Val(lastUploadedFile)), "success"))
  /\ filePreview = Nil
  /\ datasetDescription = [name |-> <<>>, description |-> ""]
  /\ showPreview = FALSE
  /\ showSheetSelector = FALSE
  /\ showDatasetResetPopup = FALSE
  /\ datasetMismatch = FALSE
  /\ uploadSuccess = FALSE
  /\ isGeneratingDescription = FALSE
  /\ errorNotification = ""
  /\ sessionId \in {NoSession, "s1"}
  /\ inputFile = Nil
  /\ srv \in {[s \in Sessions |-> DefaultSession],
              [s \in Sessions |-> IF s = "s1" THEN StoredSession ELSE DefaultSession]}
  /\ uploadLog = <<>>
  /\ tasks = SessionEffects(sessionId, Nil)
  /\ timers = NoTimers
  /\ events = 0
  /\ quiet = FALSE

\* the page is reloaded: memory is lost, localStorage and the backend stay
Reload ==
  /\ Mount(sessionId, lastUploadedFile)
  /\ UNCHANGED <<srv, uploadLog>>

\* ------------------------------------------------------------ upload pipeline
\* no modal dialog is open: the controls of the input bar can be used
NoDialog == ~showPreview /\ ~showSheetSelector /\ ~showDatasetResetPopup

InvalidFormatMsg == "Please upload a CSV or Excel file only"
CsvOnlyMsg == "Please upload a CSV file only"
Replace(ts, t, u) == (ts \ {t}) \cup {u}

\* handleFilePreview / handleExcelSheetPreview up to the first await: the
\* request the pipeline starts with (reset-session when a session id is known)
StartPipeline(op, file, sheet, isNew) ==
  MkTask(op, IF sessionId # NoSession THEN "reset" ELSE "upload", Some(file), sheet,
         isNew, sessionId, NoSession, <<>>, datasetDescription.description, NoCap)

\* handleFileSelect (575-698) with the start of handleFilePreview (700-732)
handleFileSelect(f) ==
  /\ NoDialog
  /\ inputFile # Some(f)
  /\ inputFile' = Some(f)
  /\ IF Unsupported(f)
     THEN /\ SetFileUpload(Some(MkUpload(f, "error", InvalidFormatMsg, FALSE, <<>>, "", 0)),
                           lastUploadedFile)
          /\ errorNotification' = "Invalid file format"
          /\ timers' = ArmErrorTimer(ClearErrorTimer(timers), "clearAll")
          /\ quiet' = TRUE
          /\ UNCHANGED tasks
     ELSE IF isExcelByExtension(f) \/ isExcelByType(f)
     THEN /\ CanStart
          /\ SetFileUpload(Some(MkUpload(f, "loading", "", TRUE, <<>>, "", 0)), Nil)
          /\ errorNotification' = ""
          /\ timers' = ClearErrorTimer(timers)
          /\ quiet' = FALSE
          /\ tasks' = tasks \cup {MkTask("select", "sheets", Some(f), "", TRUE, sessionId,
                                         NoSession, <<>>, "", NoCap)}
     ELSE IF PreviewAcceptsCsv(f)
     THEN /\ CanStart
          /\ SetFileUpload(Some(MkUpload(f, "loading", "", FALSE, <<>>, "", 0)), Nil)
          /\ errorNotification' = ""
          /\ timers' = ClearErrorTimer(timers)
          /\ quiet' = FALSE
          /\ tasks' = tasks \cup {StartPipeline("select", f, "", TRUE)}
     ELSE \* handleFilePreview refuses the file (862-879) and returns; line 679
          \* then sets the status to success
          /\ SetFileUpload(Some(MkUpload(f, "success", CsvOnlyMsg, FALSE, <<>>, "", 0)), Nil)
          /\ errorNotification' = "Invalid file format"
          /\ timers' = ArmErrorTimer(ClearErrorTimer(timers), "notif")
          /\ quiet' = TRUE
          /\ UNCHANGED tasks
  /\ UNCHANGED <<filePreview, datasetDescription, showPreview, showSheetSelector,
                 showDatasetResetPopup, datasetMismatch, uploadSuccess,
                 isGeneratingDescription, sessionId, srv, uploadLog>>

\* the excel-sheets response in handleFileSelect (636-675)
\* (variant for C32: no sheet is preselected)
SheetsResponse_noDefault(t, ok) ==
  /\ t \in tasks /\ t.op = "select" /\ t.pc = "sheets"
  /\ tasks' = tasks \ {t}
  /\ IF ok /\ Len(SheetsOf(Val(t.file))) > 0
     THEN /\ UpdateFileUpload([Val(fileUpload) EXCEPT !.sheets = SheetsOf(Val(t.file)),
                                                  !.status = "success"],
                              lastUploadedFile)
          /\ showSheetSelector' = TRUE
          /\ UNCHANGED <<errorNotification, timers, quiet>>
     ELSE /\ UpdateFileUpload([Val(fileUpload) EXCEPT !.status = "error",
                                                  !.errorMessage = "Excel error"],
                              lastUploadedFile)
          /\ errorNotification' = "Excel processing failed"
          /\ timers' = ArmErrorTimer(timers, "clearAll")
          /\ quiet' = TRUE
          /\ UNCHANGED showSheetSelector
  /\ UNCHANGED <<filePreview, datasetDescription, showPreview, showDatasetResetPopup,
                 datasetMismatch, uploadSuccess, isGeneratingDescription, sessionId,
                 inputFile, srv, uploadLog>>
SheetsResponse(t, ok) ==
  /\ t \in tasks /\ t.op = "select" /\ t.pc = "sheets"
  /\ tasks' = tasks \ {t}
  /\ IF ok /\ Len(SheetsOf(Val(t.file))) > 0
     THEN /\ UpdateFileUpload([Val(fileUpload) EXCEPT !.sheets = SheetsOf(Val(t.file)),
                                                  !.selectedSheet = SheetsOf(Val(t.file))[1],
                                                  !.status = "success"],
                              lastUploadedFile)
          /\ showSheetSelector' = TRUE
          /\ UNCHANGED <<errorNotification, timers, quiet>>
     ELSE /\ UpdateFileUpload([Val(fileUpload) EXCEPT !.status = "error",
                                                  !.errorMessage = "Excel error"],
                              lastUploadedFile)
          /\ errorNotification' = "Excel processing failed"
          /\ timers' = ArmErrorTimer(timers, "clearAll")
          /\ quiet' = TRUE
          /\ UNCHANGED showSheetSelector
  /\ UNCHANGED <<filePreview, datasetDescription, showPreview, showDatasetResetPopup,
                 datasetMismatch, uploadSuccess, isGeneratingDescription, sessionId,
                 inputFile, srv, uploadLog>>

PipelineOps == {"select", "eye", "keep", "confirm", "eyeExcel"}
ExcelOps == {"confirm", "eyeExcel"}
\* what runs after the awaited handleFilePreview / handleExcelSheetPreview
\* returned, which it does on success and on failure alike (the outer catch
\* swallows the error): 679, 1751-1757
AfterPreviewFU(t, fu) ==
  IF t.op \in {"select", "confirm"} /\ ~IsNil(fu)
  THEN Some([Val(fu) EXCEPT !.status = "success"])
  ELSE fu
AfterPreviewRest(t) ==
  /\ showSheetSelector' = IF t.op = "confirm" THEN FALSE ELSE showSheetSelector
  /\ showDatasetResetPopup' = IF t.op = "keep" THEN FALSE ELSE showDatasetResetPopup
  /\ datasetMismatch' = IF t.op = "keep" THEN FALSE ELSE datasetMismatch

\* the reset-session response (717-732, 1556-1572): a failure is only logged
ResetResponse(t, ok) ==
  /\ t \in tasks /\ t.op \in PipelineOps /\ t.pc = "reset"
  /\ srv' = IF ok THEN [srv EXCEPT ![t.sid] = DefaultSession] ELSE srv
  /\ tasks' = Replace(tasks, t, [t EXCEPT !.pc = "upload"])
  /\ UNCHANGED <<fileUpload, filePreview, datasetDescription, showPreview,
                 showSheetSelector, showDatasetResetPopup, datasetMismatch,
                 uploadSuccess, isGeneratingDescription, errorNotification, sessionId,
                 lastUploadedFile, inputFile, uploadLog, timers, quiet>>

isCustomDescription(d) == d # PreviewDataset /\ d # ""
useGuidancePlaceholder(t) == t.isNew \/ ~isCustomDescription(t.desc)
existingDescription(t) == IF useGuidancePlaceholder(t) THEN Placeholder ELSE t.desc
tempName(t) ==
  IF t.op \in ExcelOps THEN TempNameExcel(Val(t.file), t.sheet) ELSE TempNameCsv(Val(t.file))

\* upload_dataframe / upload_excel accepted (752-768, 1605-1640); rsid is the
\* session_id of the response
UploadAccepted(t, rsid) ==
  /\ t \in tasks /\ t.op \in PipelineOps /\ t.pc = "upload"
  /\ Len(uploadLog) < MaxUploads
  /\ (rsid = NoSession) => (t.sid # NoSession)
  /\ LET target == IF rsid = NoSession THEN t.sid ELSE rsid
         id == Len(uploadLog) + 1
     IN /\ srv' = [srv EXCEPT ![target] =
                     [custom |-> TRUE, name |-> tempName(t), desc |-> existingDescription(t),
                      data |-> [stem |-> Val(t.file).stem, sheet |-> t.sheet]]]
        /\ uploadLog' = Append(uploadLog, Val(t.file).stem)
        /\ IF t.op \in ExcelOps
           THEN UpdateFileUpload([Val(fileUpload) EXCEPT !.selectedSheet = t.sheet,
                                                      !.dataset_upload_id = id,
                                                      !.status = "success"],
                                 lastUploadedFile)
           ELSE UpdateFileUpload([Val(fileUpload) EXCEPT !.dataset_upload_id = id],
                                 lastUploadedFile)
  /\ tasks' = Replace(tasks, t, [t EXCEPT !.pc = "preview", !.rsid = rsid])
  /\ UNCHANGED <<filePreview, datasetDescription, showPreview, showSheetSelector,
                 showDatasetResetPopup, datasetMismatch, uploadSuccess,
                 isGeneratingDescription, errorNotification, sessionId, inputFile,
                 timers, quiet>>

\* the upload or the preview request failed (816-861, 1689-1734): the inner
\* catch arms a timer and rethrows, the outer catch arms another one and
\* swallows the error; then the caller goes on
PipelineFailed(t, msg) ==
  /\ t \in tasks /\ t.op \in PipelineOps /\ t.pc \in {"upload", "preview"}
  /\ tasks' = tasks \ {t}
  /\ errorNotification' = IF t.op \in ExcelOps THEN "Excel sheet preview failed"
                          ELSE "File preview failed"
  /\ LET failed == IF IsNil(fileUpload) THEN Nil
                   ELSE Some([Val(fileUpload) EXCEPT !.status = "error",
                                                     !.errorMessage = msg])
     IN IF IsNil(fileUpload)
        THEN UNCHANGED <<fileUpload, lastUploadedFile>>
        ELSE SetFileUpload(AfterPreviewFU(t, failed), lastUploadedFile)
  /\ timers' = ArmErrorTimer(ArmErrorTimer(timers, "notif"), "notif")
  /\ AfterPreviewRest(t)
  /\ quiet' = TRUE
  /\ UNCHANGED <<filePreview, datasetDescription, showPreview, uploadSuccess,
                 isGeneratingDescription, sessionId, inputFile, srv, uploadLog>>

\* the preview-csv response (771-815, 1643-1688)
\* (variant for C24: a text typed or generated earlier is kept for a new
\* dataset as well)
descriptionToUse_keepsText(t, description) ==
  IF isCustomDescription(t.desc) /\ t.desc # Placeholder THEN t.desc
  ELSE IF t.isNew THEN Placeholder
  ELSE IF description # "" THEN description ELSE existingDescription(t)
descriptionToUse(t, description) ==
  IF t.isNew THEN Placeholder
  ELSE IF isCustomDescription(t.desc) THEN t.desc
  ELSE IF description # "" THEN description ELSE existingDescription(t)
PreviewResponse(t) ==
  /\ t \in tasks /\ t.op \in PipelineOps /\ t.pc = "preview"
  /\ LET previewSessionId == IF t.rsid # NoSession THEN t.rsid ELSE t.sid
         r == srv[previewSessionId]
         d == descriptionToUse(t, r.desc)
         n == IF r.name # <<>> THEN r.name ELSE tempName(t)
     IN /\ filePreview' = Some([data |-> r.data, name |-> n, description |-> d])
        /\ datasetDescription' = [name |-> n, description |-> d]
        /\ timers' = IF t.isNew /\ (d = Placeholder \/ d = "")
                     THEN ArmSettle(timers, t.sid, t.desc)
                     ELSE timers
  /\ showPreview' = TRUE
  /\ IF t.op \in {"select", "confirm"} /\ ~IsNil(fileUpload)
     THEN SetFileUpload(AfterPreviewFU(t, fileUpload), lastUploadedFile)
     ELSE UNCHANGED <<fileUpload, lastUploadedFile>>
  /\ AfterPreviewRest(t)
  /\ SetSessionId(IF t.rsid # NoSession THEN t.rsid ELSE sessionId, fileUpload',
                  tasks \ {t})
  /\ UNCHANGED <<uploadSuccess, isGeneratingDescription, errorNotification, inputFile,
                 srv, uploadLog, quiet>>

\* ------------------------------------------------------------ sheet selector
HasSheets == ~IsNil(fileUpload) /\ Len(Val(fileUpload).sheets) > 0

\* the "Change" button (1878-1885)
OpenSheetSelector ==
  /\ NoDialog
  /\ HasSheets /\ Val(fileUpload).status = "success" /\ Val(fileUpload).isExcel
  /\ showSheetSelector' = TRUE
  /\ quiet' = FALSE
  /\ UNCHANGED <<fileUpload, filePreview, datasetDescription, showPreview,
                 showDatasetResetPopup, datasetMismatch, uploadSuccess,
                 isGeneratingDescription, errorNotification, sessionId,
                 lastUploadedFile, inputFile, srv, uploadLog, tasks, timers>>

\* Select onValueChange (2379-2386)
SelectSheet(sheet) ==
  /\ showSheetSelector /\ HasSheets
  /\ \E i \in 1..Len(Val(fileUpload).sheets) : Val(fileUpload).sheets[i] = sheet
  /\ sheet # Val(fileUpload).selectedSheet
  /\ UpdateFileUpload([Val(fileUpload) EXCEPT !.selectedSheet = sheet], lastUploadedFile)
  /\ quiet' = FALSE
  /\ UNCHANGED <<filePreview, datasetDescription, showPreview, showSheetSelector,
                 showDatasetResetPopup, datasetMismatch, uploadSuccess,
                 isGeneratingDescription, errorNotification, sessionId, inputFile, srv,
                 uploadLog, tasks, timers>>

\* the Cancel button (2408-2417), or closing the dialog (2359-2368) with cancel
\* FALSE: the file is kept when the preview dialog is open
CloseSheetSelector(cancel) ==
  /\ showSheetSelector
  /\ showSheetSelector' = FALSE
  /\ IF cancel \/ ~showPreview
     THEN SetFileUpload(Nil, Nil)
     ELSE UNCHANGED <<fileUpload, lastUploadedFile>>
  /\ quiet' = FALSE
  /\ UNCHANGED <<filePreview, datasetDescription, showPreview, showDatasetResetPopup,
                 datasetMismatch, uploadSuccess, isGeneratingDescription,
                 errorNotification, sessionId, inputFile, srv, uploadLog, tasks, timers>>

\* the Continue button: handleSheetSelectionConfirm (1738-1777) with the start
\* of handleExcelSheetPreview (1540-1572)
handleSheetSelectionConfirm ==
  /\ showSheetSelector
  /\ ~IsNil(fileUpload) /\ Val(fileUpload).selectedSheet # ""
  /\ CanStart
  /\ SetFileUpload(Some([Val(fileUpload) EXCEPT !.status = "loading"]), lastUploadedFile)
  /\ errorNotification' = ""
  /\ timers' = ClearErrorTimer(timers)
  /\ tasks' = tasks \cup {StartPipeline("confirm", Val(fileUpload).file,
                                        Val(fileUpload).selectedSheet, TRUE)}
  /\ quiet' = FALSE
  /\ UNCHANGED <<filePreview, datasetDescription, showPreview, showSheetSelector,
                 showDatasetResetPopup, datasetMismatch, uploadSuccess,
                 isGeneratingDescription, sessionId, inputFile, srv, uploadLog>>

\* the eye button (1886-1937): preview the file again.  The .then() that
\* "restores" the description compares the description of its own render
\* with itself and never writes.
PreviewAgain ==
  /\ NoDialog
  /\ ~IsNil(fileUpload) /\ Val(fileUpload).status = "success"
  /\ LET fu == Val(fileUpload)
     IN IF fu.isExcel /\ fu.selectedSheet # ""
        THEN /\ CanStart
             /\ tasks' = tasks \cup {StartPipeline("eyeExcel", fu.file, fu.selectedSheet,
                                                   FALSE)}
             /\ errorNotification' = ""
             /\ timers' = ClearErrorTimer(timers)
             /\ quiet' = FALSE
             /\ UNCHANGED <<fileUpload, lastUploadedFile>>
        ELSE IF PreviewAcceptsCsv(fu.file)
        THEN /\ CanStart
             /\ tasks' = tasks \cup {StartPipeline("eye", fu.file, "", FALSE)}
             /\ errorNotification' = ""
             /\ timers' = ClearErrorTimer(timers)
             /\ quiet' = FALSE
             /\ UNCHANGED <<fileUpload, lastUploadedFile>>
        ELSE /\ SetFileUpload(Some([fu EXCEPT !.status = "error",
                                              !.errorMessage = CsvOnlyMsg]),
                              lastUploadedFile)
             /\ errorNotification' = "Invalid file format"
             /\ timers' = ArmErrorTimer(ClearErrorTimer(timers), "notif")
             /\ quiet' = TRUE
             /\ UNCHANGED tasks
  /\ UNCHANGED <<filePreview, datasetDescription, showPreview, showSheetSelector,
                 showDatasetResetPopup, datasetMismatch, uploadSuccess,
                 isGeneratingDescription, sessionId, inputFile, srv, uploadLog>>

\* ------------------------------------------------------------ preview dialog
\* the name input and the description textarea (2165-2211)
EditName(n) ==
  /\ showPreview /\ ~isGeneratingDescription
  /\ n # datasetDescription.name
  /\ datasetDescription' = [datasetDescription EXCEPT !.name = n]
  /\ quiet' = FALSE
  /\ UNCHANGED <<fileUpload, filePreview, showPreview, showSheetSelector,
                 showDatasetResetPopup, datasetMismatch, uploadSuccess,
                 isGeneratingDescription, errorNotification, sessionId,
                 lastUploadedFile, inputFile, srv, uploadLog, tasks, timers>>
EditDescription(d) ==
  /\ showPreview /\ ~isGeneratingDescription
  /\ d # datasetDescription.description
  /\ datasetDescription' = [datasetDescription EXCEPT !.description = d]
  /\ quiet' = FALSE
  /\ UNCHANGED <<fileUpload, filePreview, showPreview, showSheetSelector,
                 showDatasetResetPopup, datasetMismatch, uploadSuccess,
                 isGeneratingDescription, errorNotification, sessionId,
                 lastUploadedFile, inputFile, srv, uploadLog, tasks, timers>>

\* the Close button (2297-2307), or closing the dialog (2110-2130) with
\* dismiss TRUE: a file that is not success is dropped
ClosePreview(dismiss) ==
  /\ showPreview /\ ~isGeneratingDescription
  /\ showPreview' = FALSE
  /\ IF dismiss /\ (IsNil(fileUpload) \/ Val(fileUpload).status # "success")
     THEN SetFileUpload(Nil, Nil) /\ inputFile' = Nil
     ELSE UNCHANGED <<fileUpload, lastUploadedFile, inputFile>>
  /\ quiet' = FALSE
  /\ UNCHANGED <<filePreview, datasetDescription, showSheetSelector,
                 showDatasetResetPopup, datasetMismatch, uploadSuccess,
                 isGeneratingDescription, errorNotification, sessionId, srv, uploadLog,
                 tasks, timers>>

\* ------------------------------------------------------------ description
\* generateDatasetDescription (1418-1439) started from a render with session
\* id sid and description desc
existingFlag(desc) == desc # "" /\ desc # Sentinel /\ desc # PreviewDataset
Generate(sid, desc, ts) ==
  IF sid = NoSession
  THEN /\ tasks' = ts
       /\ UNCHANGED <<isGeneratingDescription, datasetDescription>>
  ELSE /\ isGeneratingDescription' = TRUE
       /\ datasetDescription' = [datasetDescription EXCEPT !.description = Sentinel]
       /\ tasks' = ts \cup {MkTask("gen", "gen", Nil, "", FALSE, sid, NoSession, <<>>,
                                   desc, NoCap)}

\* the Auto-generate button (2190-2201)
AutoGenerate ==
  /\ showPreview /\ ~isGeneratingDescription
  /\ sessionId # NoSession
  /\ Generate(sessionId, datasetDescription.description, tasks)
  /\ quiet' = FALSE
  /\ UNCHANGED <<fileUpload, filePreview, showPreview, showSheetSelector,
                 showDatasetResetPopup, datasetMismatch, uploadSuccess,
                 errorNotification, sessionId, lastUploadedFile, inputFile, srv,
                 uploadLog, timers>>

\* the settle timer of a new upload fires (812-814, 1685-1687)
SettleTimer(x) ==
  /\ x \in timers.settle
  /\ timers' = [timers EXCEPT !.settle = @ \ {x}]
  /\ Generate(x.sid, x.desc, tasks)
  /\ UNCHANGED <<fileUpload, filePreview, showPreview, showSheetSelector,
                 showDatasetResetPopup, datasetMismatch, uploadSuccess,
                 errorNotification, sessionId, lastUploadedFile, inputFile, srv,
                 uploadLog, quiet>>

\* the create-dataset-description response (1441-1456): text, an empty
\* description, or a failure
\* (variant for C17: a failure empties the description whatever it holds)
GenerateResponse_alwaysEmpties(t, outcome) ==
  /\ t \in tasks /\ t.op = "gen"
  /\ tasks' = tasks \ {t}
  /\ datasetDescription' =
       CASE outcome = "text" -> [datasetDescription EXCEPT !.description = GenText]
         [] outcome = "empty" -> datasetDescription
         [] OTHER -> [datasetDescription EXCEPT !.description = ""]
  /\ isGeneratingDescription' = FALSE
  /\ UNCHANGED <<fileUpload, filePreview, showPreview, showSheetSelector,
                 showDatasetResetPopup, datasetMismatch, uploadSuccess,
                 errorNotification, sessionId, lastUploadedFile, inputFile, srv,
                 uploadLog, timers, quiet>>
GenerateResponse(t, outcome) ==
  /\ t \in tasks /\ t.op = "gen"
  /\ tasks' = tasks \ {t}
  /\ datasetDescription' =
       CASE outcome = "text" -> [datasetDescription EXCEPT !.description = GenText]
         [] outcome = "empty" -> datasetDescription
         [] OTHER -> [datasetDescription EXCEPT
                        !.description = IF @ = Sentinel THEN "" ELSE @]
  /\ isGeneratingDescription' = FALSE
  /\ UNCHANGED <<fileUpload, filePreview, showPreview, showSheetSelector,
                 showDatasetResetPopup, datasetMismatch, uploadSuccess,
                 errorNotification, sessionId, lastUploadedFile, inputFile, srv,
                 uploadLog, timers, quiet>>

\* ------------------------------------------------------------ timers
ErrorTimerEffect(kind) ==
  /\ errorNotification' = ""
  /\ IF kind = "clearAll"
     THEN SetFileUpload(Nil, Nil)
     ELSE UNCHANGED <<fileUpload, lastUploadedFile>>
\* the timer errorTimeoutRef points to fires (604-608, 670-674, 691-695,
\* 837-839, 858-860, 1172-1174)
ErrorTimer ==
  /\ timers.ref # ""
  /\ ErrorTimerEffect(timers.ref)
  /\ timers' = [timers EXCEPT !.ref = ""]
  /\ UNCHANGED <<filePreview, datasetDescription, showPreview, showSheetSelector,
                 showDatasetResetPopup, datasetMismatch, uploadSuccess,
                 isGeneratingDescription, sessionId, inputFile, srv, uploadLog, tasks,
                 quiet>>
\* an error timer whose handle was overwritten fires
DetachedTimer(kind) ==
  /\ IF kind = "clearAll" THEN timers.detClear > 0 ELSE timers.detNotif > 0
  /\ ErrorTimerEffect(kind)
  /\ timers' = IF kind = "clearAll" THEN [timers EXCEPT !.detClear = @ - 1]
               ELSE [timers EXCEPT !.detNotif = @ - 1]
  /\ UNCHANGED <<filePreview, datasetDescription, showPreview, showSheetSelector,
                 showDatasetResetPopup, datasetMismatch, uploadSuccess,
                 isGeneratingDescription, sessionId, inputFile, srv, uploadLog, tasks,
                 quiet>>
\* a success-banner timer fires (1277-1279, 1311-1313, 1368-1370)
BannerTimer ==
  /\ timers.banner > 0
  /\ timers' = [timers EXCEPT !.banner = @ - 1]
  /\ uploadSuccess' = FALSE
  /\ UNCHANGED <<fileUpload, filePreview, datasetDescription, showPreview,
                 showSheetSelector, showDatasetResetPopup, datasetMismatch,
                 isGeneratingDescription, errorNotification, sessionId,
                 lastUploadedFile, inputFile, srv, uploadLog, tasks, quiet>>

\* ------------------------------------------------------------ default dataset
\* handlePreviewDefaultDataset (1027-1054) / handleSilentDefaultDataset
\* (1095-1122) up to the reset request; the handler is the one of the render
\* it was called in, whose fileUpload its task keeps
\* (variant for C9: the FileUpload and the record are left as they are)
StartDefault_keepsFile(op) ==
  /\ UNCHANGED <<fileUpload, lastUploadedFile>>
  /\ inputFile' = Nil
  /\ tasks' = tasks \cup {MkTask(op, "reset", Nil, "", FALSE, sessionId, NoSession, <<>>,
                                 "", StatusCap(fileUpload))}
StartDefault(op) ==
  /\ SetFileUpload(Nil, Nil)
  /\ inputFile' = Nil
  /\ tasks' = tasks \cup {MkTask(op, "reset", Nil, "", FALSE, sessionId, NoSession, <<>>,
                                 "", StatusCap(fileUpload))}

\* the "Preview Default Dataset" button (1943-1951), shown without a file
PreviewDefaultButton ==
  /\ NoDialog /\ IsNil(fileUpload)
  /\ CanStart
  /\ StartDefault("default")
  /\ quiet' = FALSE
  /\ UNCHANGED <<filePreview, datasetDescription, showPreview, showSheetSelector,
                 showDatasetResetPopup, datasetMismatch, uploadSuccess,
                 isGeneratingDescription, errorNotification, sessionId, srv, uploadLog,
                 timers>>

\* the parent calls the exposed handle (243-246)
ParentDefault(op) ==
  /\ op \in {"default", "silent"}
  /\ CanStart
  /\ StartDefault(op)
  /\ quiet' = FALSE
  /\ UNCHANGED <<filePreview, datasetDescription, showPreview, showSheetSelector,
                 showDatasetResetPopup, datasetMismatch, uploadSuccess,
                 isGeneratingDescription, errorNotification, sessionId, srv, uploadLog,
                 timers>>

\* the callers: the button or the parent, the parent's silent variant, and
\* handleDatasetReset
DefaultOps == {"default", "silent", "discard", "keepNoFile"}
\* the reset-session response (1045-1054): a failure is only logged
DefaultResetResponse(t, ok) ==
  /\ t \in tasks /\ t.op \in DefaultOps /\ t.pc = "reset"
  /\ srv' = IF ok /\ t.sid # NoSession THEN [srv EXCEPT ![t.sid] = DefaultSession]
            ELSE srv
  /\ tasks' = Replace(tasks, t, [t EXCEPT !.pc = "default"])
  /\ UNCHANGED <<fileUpload, filePreview, datasetDescription, showPreview,
                 showSheetSelector, showDatasetResetPopup, datasetMismatch,
                 uploadSuccess, isGeneratingDescription, errorNotification, sessionId,
                 lastUploadedFile, inputFile, uploadLog, timers, quiet>>

\* the default-dataset response (1057-1088, 1125-1157); rsid its session_id
DefaultResponse(t, rsid) ==
  /\ t \in tasks /\ t.op \in DefaultOps /\ t.pc = "default"
  /\ (t.sid = NoSession) => (rsid # NoSession)
  /\ srv' = IF t.sid # NoSession THEN [srv EXCEPT ![t.sid] = DefaultSession] ELSE srv
  /\ filePreview' = Some([data |-> DefaultData, name |-> DefaultName,
                          description |-> DefaultDesc])
  /\ datasetDescription' = [name |-> DefaultName, description |-> DefaultDesc]
  /\ showPreview' = IF t.op # "silent" THEN TRUE ELSE showPreview
  /\ datasetMismatch' = FALSE
  /\ showDatasetResetPopup' = FALSE
  /\ SetSessionId(IF rsid # NoSession THEN rsid ELSE sessionId, fileUpload, tasks \ {t})
  /\ UNCHANGED <<fileUpload, showSheetSelector, uploadSuccess, isGeneratingDescription,
                 errorNotification, lastUploadedFile, inputFile, uploadLog, timers,
                 quiet>>

\* the default-dataset request failed (1090-1092, 1159-1161): logged
DefaultFailed(t) ==
  /\ t \in tasks /\ t.op \in DefaultOps /\ t.pc = "default"
  /\ tasks' = tasks \ {t}
  /\ UNCHANGED <<fileUpload, filePreview, datasetDescription, showPreview,
                 showSheetSelector, showDatasetResetPopup, datasetMismatch,
                 uploadSuccess, isGeneratingDescription, errorNotification, sessionId,
                 lastUploadedFile, inputFile, srv, uploadLog, timers, quiet>>

\* ------------------------------------------------------------ commit
CommitEnabled ==
  /\ showPreview
  /\ ~IsNil(filePreview) /\ Val(filePreview).name # <<>>
  /\ Val(filePreview).description # ""
  /\ ~isGeneratingDescription
  /\ datasetDescription.description # Sentinel

\* (variant for C11: the test on the file input is inverted)
isMockFile_needsInput(f) == f.size = 0 /\ ~IsNil(inputFile) /\ f.lastModified = 0
isMockFile(f) == f.size = 0 /\ IsNil(inputFile) /\ f.lastModified = 0
\* (variant for C10: the description is not looked at)
MissingMetadata_nameOnly == datasetDescription.name = <<>>
MissingMetadata == datasetDescription.name = <<>> \/ datasetDescription.description = ""
\* fileInputRef.current?.files?.[0] || fileUpload?.file || null
actualFile == IF ~IsNil(inputFile) THEN inputFile
              ELSE IF ~IsNil(fileUpload) THEN Some(Val(fileUpload).file) ELSE Nil

\* handleUploadWithDescription (1164-1235, 1290-1299) up to its first request
handleUploadWithDescription ==
  /\ CommitEnabled
  /\ IF MissingMetadata
     THEN /\ errorNotification' = "Missing information"
          /\ timers' = ArmErrorTimer(timers, "notif")
          /\ UNCHANGED <<fileUpload, lastUploadedFile, inputFile, showPreview, tasks>>
     ELSE /\ errorNotification' = ""
          /\ timers' = ClearErrorTimer(timers)
          /\ IF ~IsNil(actualFile) /\ isMockFile(Val(actualFile))
             THEN /\ SetFileUpload(Nil, Nil)
                  /\ inputFile' = Nil
                  /\ showPreview' = FALSE
                  /\ UNCHANGED tasks
             ELSE /\ CanStart
                  /\ tasks' = tasks \cup
                       {MkTask("commit",
                               IF IsNil(actualFile) THEN "update"
                               ELSE IF sessionId # NoSession THEN "reset" ELSE "upload",
                               actualFile, "", FALSE, sessionId, NoSession,
                               datasetDescription.name, datasetDescription.description,
                               Cap(fileUpload))}
                  /\ UNCHANGED <<fileUpload, lastUploadedFile, inputFile, showPreview>>
  /\ quiet' = FALSE
  /\ UNCHANGED <<filePreview, datasetDescription, showSheetSelector,
                 showDatasetResetPopup, datasetMismatch, uploadSuccess,
                 isGeneratingDescription, sessionId, srv, uploadLog>>

\* the reset-session response before the final upload (1221-1235)
CommitResetResponse(t, ok) ==
  /\ t \in tasks /\ t.op = "commit" /\ t.pc = "reset"
  /\ srv' = IF ok THEN [srv EXCEPT ![t.sid] = DefaultSession] ELSE srv
  /\ tasks' = Replace(tasks, t, [t EXCEPT !.pc = "upload"])
  /\ UNCHANGED <<fileUpload, filePreview, datasetDescription, showPreview,
                 showSheetSelector, showDatasetResetPopup, datasetMismatch,
                 uploadSuccess, isGeneratingDescription, errorNotification, sessionId,
                 lastUploadedFile, inputFile, uploadLog, timers, quiet>>

isExcelFile(t) == t.cap.isExcel \/ isExcelByExtension(Val(t.file))
\* sheet_name is sent for a spreadsheet with a selected sheet (1252-1254)
commitSheet(t) == IF isExcelFile(t) /\ t.cap.sel # "" THEN t.cap.sel ELSE ""

\* the final upload was accepted (1260-1280, 1320-1370)
CommitAccepted(t, rsid) ==
  /\ t \in tasks /\ t.op = "commit" /\ t.pc = "upload"
  /\ Len(uploadLog) < MaxUploads
  /\ (rsid = NoSession) => (t.sid # NoSession)
  /\ LET target == IF rsid = NoSession THEN t.sid ELSE rsid
         updatedFile == UpdatedFile(t.name, Val(t.file))
         new == Some(MkUpload(updatedFile, "success", "", isExcelFile(t), t.cap.sheets,
                              t.cap.sel, 0))
     IN /\ srv' = [srv EXCEPT ![target] =
                     [custom |-> TRUE, name |-> t.name, desc |-> t.desc,
                      data |-> [stem |-> Val(t.file).stem, sheet |-> commitSheet(t)]]]
        /\ uploadLog' = Append(uploadLog, Val(t.file).stem)
        /\ SetFileUpload(new, Some(CommitInfo(updatedFile, isExcelFile(t), t.cap.sel)))
        /\ SetSessionId(IF rsid # NoSession THEN rsid ELSE sessionId, new, tasks \ {t})
  /\ showPreview' = FALSE
  /\ uploadSuccess' = TRUE
  /\ timers' = ArmBanner(ArmBanner(timers))
  /\ UNCHANGED <<filePreview, datasetDescription, showSheetSelector,
                 showDatasetResetPopup, datasetMismatch, isGeneratingDescription,
                 errorNotification, inputFile, quiet>>

\* the session update of the default-dataset path succeeded (1292-1322)
CommitUpdated(t, rsid) ==
  /\ t \in tasks /\ t.op = "commit" /\ t.pc = "update"
  /\ (rsid = NoSession) => (t.sid # NoSession)
  /\ LET target == IF rsid = NoSession THEN t.sid ELSE rsid
     IN srv' = [srv EXCEPT ![target] = [DefaultSession EXCEPT !.name = t.name,
                                                              !.desc = t.desc]]
  /\ SetSessionId(IF rsid # NoSession THEN rsid ELSE sessionId, fileUpload, tasks \ {t})
  /\ showPreview' = FALSE
  /\ uploadSuccess' = TRUE
  /\ timers' = ArmBanner(ArmBanner(timers))
  /\ UNCHANGED <<fileUpload, filePreview, datasetDescription, showSheetSelector,
                 showDatasetResetPopup, datasetMismatch, isGeneratingDescription,
                 errorNotification, lastUploadedFile, inputFile, uploadLog, quiet>>

\* the final request failed (1281-1289, 1371-1374): an alert, nothing else
CommitFailed(t) ==
  /\ t \in tasks /\ t.op = "commit" /\ t.pc \in {"upload", "update"}
  /\ tasks' = tasks \ {t}
  /\ UNCHANGED <<fileUpload, filePreview, datasetDescription, showPreview,
                 showSheetSelector, showDatasetResetPopup, datasetMismatch,
                 uploadSuccess, isGeneratingDescription, errorNotification, sessionId,
                 lastUploadedFile, inputFile, srv, uploadLog, timers, quiet>>

\* ------------------------------------------------------------ reconciliation
\* the session-info response of the chat-switch effect (352-430); ok FALSE is
\* a failed request, which is only logged
SessionInfoResponse(t, ok) ==
  /\ t \in tasks /\ t.op = "e1"
  /\ LET r == srv[t.sid]
     IN IF ~ok
        THEN /\ tasks' = tasks \ {t}
             /\ UNCHANGED <<fileUpload, lastUploadedFile, datasetDescription>>
        ELSE IF r.custom /\ ~IsNil(lastUploadedFile)
        THEN /\ SetFileUpload(Some(PlainUpload(MockFromInfo(Val(lastUploadedFile)),
                                               "success")),
                              lastUploadedFile)
             /\ tasks' = Replace(tasks, t, [t EXCEPT !.op = "e1preview", !.pc = "preview"])
             /\ UNCHANGED datasetDescription
        ELSE IF r.custom
        THEN /\ SetFileUpload(Some(PlainUpload(
                                MockCustom(IF r.name # <<>> THEN r.name
                                           ELSE CustomDatasetName), "success")),
                              lastUploadedFile)
             /\ datasetDescription' =
                  IF r.name # <<>> \/ r.desc # ""
                  THEN [name |-> IF r.name # <<>> THEN r.name ELSE CustomDatasetName,
                        description |-> IF r.desc # "" THEN r.desc ELSE "Custom dataset"]
                  ELSE datasetDescription
             /\ tasks' = tasks \ {t}
        ELSE /\ SetFileUpload(Nil, Nil)
             /\ tasks' = tasks \ {t}
             /\ UNCHANGED datasetDescription
  /\ UNCHANGED <<filePreview, showPreview, showSheetSelector, showDatasetResetPopup,
                 datasetMismatch, uploadSuccess, isGeneratingDescription,
                 errorNotification, sessionId, inputFile, srv, uploadLog, timers, quiet>>

\* the background preview-csv response of the chat-switch effect (383-394)
\* (variant for C21: a failed re-fetch drops the restored FileUpload)
RestorePreviewResponse_reverts(t, ok) ==
  /\ t \in tasks /\ t.op = "e1preview"
  /\ tasks' = tasks \ {t}
  /\ LET r == srv[t.sid]
     IN IF ok
        THEN /\ filePreview' = Some([data |-> r.data, name |-> r.name,
                                     description |-> r.desc])
             /\ datasetDescription' = [name |-> r.name, description |-> r.desc]
             /\ UNCHANGED <<fileUpload, lastUploadedFile>>
        ELSE /\ SetFileUpload(Nil, Nil)
             /\ UNCHANGED <<filePreview, datasetDescription>>
  /\ UNCHANGED <<showPreview, showSheetSelector, showDatasetResetPopup,
                 datasetMismatch, uploadSuccess, isGeneratingDescription,
                 errorNotification, sessionId, inputFile, srv,
                 uploadLog, timers, quiet>>
RestorePreviewResponse(t, ok) ==
  /\ t \in tasks /\ t.op = "e1preview"
  /\ tasks' = tasks \ {t}
  /\ LET r == srv[t.sid]
     IN IF ok
        THEN /\ filePreview' = Some([data |-> r.data, name |-> r.name,
                                     description |-> r.desc])
             /\ datasetDescription' = [name |-> r.name, description |-> r.desc]
        ELSE UNCHANGED <<filePreview, datasetDescription>>
  /\ UNCHANGED <<fileUpload, showPreview, showSheetSelector, showDatasetResetPopup,
                 datasetMismatch, uploadSuccess, isGeneratingDescription,
                 errorNotification, sessionId, lastUploadedFile, inputFile, srv,
                 uploadLog, timers, quiet>>

\* the session-info response of checkSessionDataset (467-529), which reads
\* the fileUpload of the render the effect ran in
checkSessionDataset(t, ok) ==
  /\ t \in tasks /\ t.op = "e2"
  /\ tasks' = tasks \ {t}
  /\ LET r == srv[t.sid]
         noFile == t.cap.st = "null"
     IN IF ~ok
        THEN UNCHANGED <<fileUpload, lastUploadedFile, datasetMismatch,
                         showDatasetResetPopup>>
        ELSE IF r.custom /\ noFile /\ ~IsNil(lastUploadedFile)
        THEN /\ SetFileUpload(Some(PlainUpload(MockFromInfo(Val(lastUploadedFile)),
                                               "success")),
                              lastUploadedFile)
             /\ UNCHANGED <<datasetMismatch, showDatasetResetPopup>>
        ELSE IF r.custom /\ noFile
        THEN /\ SetFileUpload(Some(PlainUpload(
                                MockCustom(IF r.name # <<>> THEN r.name
                                           ELSE CustomDatasetName), "success")),
                              lastUploadedFile)
             /\ datasetMismatch' = TRUE
             /\ UNCHANGED showDatasetResetPopup
        ELSE IF r.custom
        THEN UNCHANGED <<fileUpload, lastUploadedFile, datasetMismatch,
                         showDatasetResetPopup>>
        ELSE IF t.cap.st = "success"
        THEN /\ datasetMismatch' = TRUE
             /\ showDatasetResetPopup' = TRUE
             /\ UNCHANGED <<fileUpload, lastUploadedFile>>
        ELSE /\ SetFileUpload(Nil, Nil)
             /\ UNCHANGED <<datasetMismatch, showDatasetResetPopup>>
  /\ UNCHANGED <<filePreview, datasetDescription, showPreview, showSheetSelector,
                 uploadSuccess, isGeneratingDescription, errorNotification, sessionId,
                 inputFile, srv, uploadLog, timers, quiet>>

\* handleDatasetReset (1460-1537): the popup's buttons, keepCustomData TRUE
\* for "keep"
handleDatasetReset(keepCustomData) ==
  /\ showDatasetResetPopup
  /\ IF keepCustomData /\ ~IsNil(fileUpload)
     THEN LET fu == Val(fileUpload)
          IN IF fu.file.size = 0
             THEN /\ SetFileUpload(Nil, Nil)
                  /\ inputFile' = Nil
                  /\ showDatasetResetPopup' = FALSE
                  /\ datasetMismatch' = FALSE
                  /\ quiet' = FALSE
                  /\ UNCHANGED <<tasks, errorNotification, timers>>
             ELSE IF PreviewAcceptsCsv(fu.file)
             THEN \* the popup is closed when the awaited preview has returned
                  /\ CanStart
                  /\ tasks' = tasks \cup {StartPipeline("keep", fu.file, "", FALSE)}
                  /\ errorNotification' = ""
                  /\ timers' = ClearErrorTimer(timers)
                  /\ quiet' = FALSE
                  /\ UNCHANGED <<fileUpload, lastUploadedFile, inputFile,
                                 showDatasetResetPopup, datasetMismatch>>
             ELSE /\ SetFileUpload(Some([fu EXCEPT !.status = "error",
                                                   !.errorMessage = CsvOnlyMsg]),
                                   lastUploadedFile)
                  /\ errorNotification' = "Invalid file format"
                  /\ timers' = ArmErrorTimer(ClearErrorTimer(timers), "notif")
                  /\ showDatasetResetPopup' = FALSE
                  /\ datasetMismatch' = FALSE
                  /\ quiet' = TRUE
                  /\ UNCHANGED <<tasks, inputFile>>
     ELSE \* handlePreviewDefaultDataset is called (1527): without a fileUpload
          \* also by "keep"
          /\ CanStart
          /\ StartDefault(IF keepCustomData THEN "keepNoFile" ELSE "discard")
          /\ showDatasetResetPopup' = FALSE
          /\ datasetMismatch' = FALSE
          /\ quiet' = FALSE
          /\ UNCHANGED <<errorNotification, timers>>
  /\ UNCHANGED <<filePreview, datasetDescription, showPreview, showSheetSelector,
                 uploadSuccess, isGeneratingDescription, sessionId, srv, uploadLog>>

\* the popup's onClose (2351)
ClosePopup ==
  /\ showDatasetResetPopup
  /\ showDatasetResetPopup' = FALSE
  /\ quiet' = FALSE
  /\ UNCHANGED <<fileUpload, filePreview, datasetDescription, showPreview,
                 showSheetSelector, datasetMismatch, uploadSuccess,
                 isGeneratingDescription, errorNotification, sessionId,
                 lastUploadedFile, inputFile, srv, uploadLog, tasks, timers>>

\* ------------------------------------------------------------ environment
\* the user switches to another chat: the session store gets its id
SwitchSession(s) ==
  /\ s \in Sessions /\ s # sessionId
  /\ SetSessionId(s, fileUpload, tasks)
  /\ quiet' = FALSE
  /\ UNCHANGED <<fileUpload, filePreview, datasetDescription, showPreview,
                 showSheetSelector, showDatasetResetPopup, datasetMismatch,
                 uploadSuccess, isGeneratingDescription, errorNotification,
                 lastUploadedFile, inputFile, srv, uploadLog, timers>>

\* the backend drops a session's custom dataset (expiry)
SessionExpires(s) ==
  /\ s \in Sessions /\ srv[s].custom
  /\ srv' = [srv EXCEPT ![s] = DefaultSession]
  /\ UNCHANGED <<fileUpload, filePreview, datasetDescription, showPreview,
                 showSheetSelector, showDatasetResetPopup, datasetMismatch,
                 uploadSuccess, isGeneratingDescription, errorNotification, sessionId,
                 lastUploadedFile, inputFile, uploadLog, tasks, timers, quiet>>

\* ------------------------------------------------------------ specification
RespSessions == Sessions \cup {NoSession}
\* A user or environment event counts; a response or a timer does not.
Tick == events' = events + 1
Quiet == UNCHANGED events
\* the impatient user acts at any moment, responses outstanding or not
Racing == events < MaxRaces
\* the patient user acts when every request has been answered
Patient == events < MaxEvents /\ tasks = {}

\* what the user, the parent component and the backend's expiry do, at any
\* moment.  The "Change" button of a previewed spreadsheet takes four events
\* to reach and is left to SeqStep.
RaceStep ==
  \/ \E f \in InputFiles : Racing /\ handleFileSelect(f) /\ Tick
  \/ \E sh \in {"Sheet1", "Sheet2"} : Racing /\ SelectSheet(sh) /\ Tick
  \/ \E c \in BOOLEAN : Racing /\ CloseSheetSelector(c) /\ Tick
  \/ Racing /\ handleSheetSelectionConfirm /\ Tick
  \/ Racing /\ PreviewAgain /\ Tick
  \/ \E n \in {<<>>, UserName} : Racing /\ EditName(n) /\ Tick
  \/ \E d \in {"", UserDesc} : Racing /\ EditDescription(d) /\ Tick
  \/ \E d \in BOOLEAN : Racing /\ ClosePreview(d) /\ Tick
  \/ Racing /\ AutoGenerate /\ Tick
  \/ Racing /\ PreviewDefaultButton /\ Tick
  \/ \E op \in {"default", "silent"} : Racing /\ ParentDefault(op) /\ Tick
  \/ Racing /\ handleUploadWithDescription /\ Tick
  \/ \E k \in BOOLEAN : Racing /\ handleDatasetReset(k) /\ Tick
  \/ Racing /\ ClosePopup /\ Tick
  \/ \E s \in Sessions : Racing /\ SwitchSession(s) /\ Tick
  \/ \E s \in Sessions : Racing /\ SessionExpires(s) /\ Tick
  \/ Racing /\ Reload /\ Tick
\* the same events, each one made when no request is outstanding; the patient
\* user also has the empty file
SeqStep ==
  \/ \E f \in InputFiles \cup {FileE} : Patient /\ handleFileSelect(f) /\ Tick
  \/ \E sh \in {"Sheet1", "Sheet2"} : Patient /\ SelectSheet(sh) /\ Tick
  \/ \E c \in BOOLEAN : Patient /\ CloseSheetSelector(c) /\ Tick
  \/ Patient /\ handleSheetSelectionConfirm /\ Tick
  \/ Patient /\ PreviewAgain /\ Tick
  \/ \E n \in {<<>>, UserName} : Patient /\ EditName(n) /\ Tick
  \/ \E d \in {"", UserDesc} : Patient /\ EditDescription(d) /\ Tick
  \/ \E d \in BOOLEAN : Patient /\ ClosePreview(d) /\ Tick
  \/ Patient /\ AutoGenerate /\ Tick
  \/ Patient /\ PreviewDefaultButton /\ Tick
  \/ \E op \in {"default", "silent"} : Patient /\ ParentDefault(op) /\ Tick
  \/ Patient /\ handleUploadWithDescription /\ Tick
  \/ \E k \in BOOLEAN : Patient /\ handleDatasetReset(k) /\ Tick
  \/ Patient /\ ClosePopup /\ Tick
  \/ \E s \in Sessions : Patient /\ SwitchSession(s) /\ Tick
  \/ \E s \in Sessions : Patient /\ SessionExpires(s) /\ Tick
  \/ Patient /\ Reload /\ Tick
  \/ Patient /\ OpenSheetSelector /\ Tick
\* the responses that arrive and the timers that fire
SystemStep ==
  \/ \E t \in tasks, ok \in BOOLEAN : SheetsResponse(t, ok) /\ Quiet
  \/ \E t \in tasks, ok \in BOOLEAN : ResetResponse(t, ok) /\ Quiet
  \/ \E t \in tasks, rsid \in RespSessions : UploadAccepted(t, rsid) /\ Quiet
  \/ \E t \in tasks : PipelineFailed(t, IF t.pc = "upload" THEN "upload rejected"
                                       ELSE "preview failed") /\ Quiet
  \/ \E t \in tasks : PreviewResponse(t) /\ Quiet
  \/ \E x \in timers.settle : SettleTimer(x) /\ Quiet
  \/ \E t \in tasks, o \in {"text", "empty", "fail"} : GenerateResponse(t, o) /\ Quiet
  \/ ErrorTimer /\ Quiet
  \/ \E k \in {"clearAll", "notif"} : DetachedTimer(k) /\ Quiet
  \/ BannerTimer /\ Quiet
  \/ \E t \in tasks, ok \in BOOLEAN : DefaultResetResponse(t, ok) /\ Quiet
  \/ \E t \in tasks, rsid \in RespSessions : DefaultResponse(t, rsid) /\ Quiet
  \/ \E t \in tasks : DefaultFailed(t) /\ Quiet
  \/ \E t \in tasks, ok \in BOOLEAN : CommitResetResponse(t, ok) /\ Quiet
  \/ \E t \in tasks, rsid \in RespSessions : CommitAccepted(t, rsid) /\ Quiet
  \/ \E t \in tasks, rsid \in RespSessions : CommitUpdated(t, rsid) /\ Quiet
  \/ \E t \in tasks : CommitFailed(t) /\ Quiet
  \/ \E t \in tasks, ok \in BOOLEAN : SessionInfoResponse(t, ok) /\ Quiet
  \/ \E t \in tasks, ok \in BOOLEAN : RestorePreviewResponse(t, ok) /\ Quiet
  \/ \E t \in tasks, ok \in BOOLEAN : checkSessionDataset(t, ok) /\ Quiet

Next ==
  \/ RaceStep
  \/ SystemStep
Spec == Init /\ [][Next]_vars

SeqNext ==
  \/ SeqStep
  \/ SystemStep
SeqSpec == SeqInit /\ [][SeqNext]_vars

\* One selection of a file of any extension and declared type, with the
\* responses and the timers that follow it.
PickStep ==
  \/ \E f \in AnyFiles : events < MaxPicks /\ handleFileSelect(f) /\ Tick
PickSystemStep ==
  \/ \E t \in tasks, ok \in BOOLEAN : SheetsResponse(t, ok) /\ Quiet
  \/ \E t \in tasks, ok \in BOOLEAN : ResetResponse(t, ok) /\ Quiet
  \/ \E t \in tasks, rsid \in RespSessions : UploadAccepted(t, rsid) /\ Quiet
  \/ \E t \in tasks : PipelineFailed(t, IF t.pc = "upload" THEN "upload rejected"
                                       ELSE "preview failed") /\ Quiet
  \/ \E t \in tasks : PreviewResponse(t) /\ Quiet
  \/ \E x \in timers.settle : SettleTimer(x) /\ Quiet
  \/ \E t \in tasks, o \in {"text", "empty", "fail"} : GenerateResponse(t, o) /\ Quiet
  \/ ErrorTimer /\ Quiet
  \/ \E k \in {"clearAll", "notif"} : DetachedTimer(k) /\ Quiet
  \/ \E t \in tasks, ok \in BOOLEAN : SessionInfoResponse(t, ok) /\ Quiet
  \/ \E t \in tasks, ok \in BOOLEAN : RestorePreviewResponse(t, ok) /\ Quiet
  \/ \E t \in tasks, ok \in BOOLEAN : checkSessionDataset(t, ok) /\ Quiet
PickNext ==
  \/ PickStep
  \/ PickSystemStep
PickSpec == Init /\ [][PickNext]_vars

\* The user who selects files and works the sheet selector and the detail
\* dialog at any moment, responses outstanding or not, on a page that was
\* opened with a session id and nothing stored.
DialogInit ==
  /\ lastUploadedFile = Nil
  /\ fileUpload = Nil
  /\ filePreview = Nil
  /\ datasetDescription = [name |-> <<>>, description |-> ""]
  /\ showPreview = FALSE
  /\ showSheetSelector = FALSE
  /\ showDatasetResetPopup = FALSE
  /\ datasetMismatch = FALSE
  /\ uploadSuccess = FALSE
  /\ isGeneratingDescription = FALSE
  /\ errorNotification = ""
  /\ sessionId = "s1"
  /\ inputFile = Nil
  /\ srv = [s \in Sessions |-> DefaultSession]
  /\ uploadLog = <<>>
  /\ tasks = SessionEffects(sessionId, Nil)
  /\ timers = NoTimers
  /\ events = 0
  /\ quiet = FALSE
Hasty == events < MaxDialogEvents
DialogStep ==
  \/ \E f \in {FileA, FileB} : Hasty /\ handleFileSelect(f) /\ Tick
  \/ \E c \in BOOLEAN : Hasty /\ CloseSheetSelector(c) /\ Tick
  \/ Hasty /\ handleSheetSelectionConfirm /\ Tick
  \/ Hasty /\ PreviewAgain /\ Tick
  \/ \E d \in BOOLEAN : Hasty /\ ClosePreview(d) /\ Tick
  \/ Hasty /\ AutoGenerate /\ Tick
DialogNext ==
  \/ DialogStep
  \/ PickSystemStep
DialogSpec == DialogInit /\ [][DialogNext]_vars

\* The user who selects a spreadsheet (b.xlsx, or f.xls in which the backend
\* finds no sheet) and goes through its sheets: picks one, confirms, closes
\* the detail dialog, comes back with "Change"; each event made when no
\* request is outstanding.
SheetStep ==
  \/ \E f \in {FileB, MkFile(<<"f">>, "xls", XlsType, 1, 1)} :
       events < MaxSheetEvents /\ tasks = {} /\ handleFileSelect(f) /\ Tick
  \/ \E sh \in {"Sheet1", "Sheet2"} :
       events < MaxSheetEvents /\ tasks = {} /\ SelectSheet(sh) /\ Tick
  \/ \E c \in BOOLEAN : events < MaxSheetEvents /\ tasks = {} /\ CloseSheetSelector(c) /\ Tick
  \/ events < MaxSheetEvents /\ tasks = {} /\ handleSheetSelectionConfirm /\ Tick
  \/ \E d \in BOOLEAN : events < MaxSheetEvents /\ tasks = {} /\ ClosePreview(d) /\ Tick
  \/ events < MaxSheetEvents /\ tasks = {} /\ OpenSheetSelector /\ Tick
SheetNext ==
  \/ SheetStep
  \/ PickSystemStep
SheetSpec == DialogInit /\ [][SheetNext]_vars
\* The same user of the sheet selector in a hurry: the events are made
\* whether or not a request is outstanding.
RushStep ==
  \/ events < MaxRushEvents /\ handleFileSelect(FileB) /\ Tick
  \/ \E sh \in {"Sheet1", "Sheet2"} : events < MaxRushEvents /\ SelectSheet(sh) /\ Tick
  \/ \E c \in BOOLEAN : events < MaxRushEvents /\ CloseSheetSelector(c) /\ Tick
  \/ events < MaxRushEvents /\ handleSheetSelectionConfirm /\ Tick
  \/ \E d \in BOOLEAN : events < MaxRushEvents /\ ClosePreview(d) /\ Tick
  \/ events < MaxRushEvents /\ OpenSheetSelector /\ Tick
RushNext ==
  \/ RushStep
  \/ PickSystemStep
RushSpec == DialogInit /\ [][RushNext]_vars
\* ------------------------------------------------------------ claims
Status(fu) == IF IsNil(fu) THEN "unset" ELSE Val(fu).status
\* a response to a pipeline request of task t arrives
ResponseTo(t) ==
  \/ \E ok \in BOOLEAN : SheetsResponse(t, ok)
  \/ \E rsid \in RespSessions : UploadAccepted(t, rsid)
  \/ PreviewResponse(t)
\* a step of the pipeline of task t fails
FailureOf(t) ==
  \/ SheetsResponse(t, FALSE)
  \/ \E m \in {"upload rejected", "preview failed"} : PipelineFailed(t, m)

\* C1: once file B is the accepted selection, nothing derived from the
\* earlier file A is present: not A's upload id in FileUpload, not A's rows
\* or name in FilePreview, not A's name in DatasetDescription.
C1_NoLeakage ==
  (inputFile = Some(FileB)) =>
    /\ ~IsNil(fileUpload) =>
          /\ Val(fileUpload).file.stem # FileA.stem
          /\ Val(fileUpload).dataset_upload_id # 0 =>
                uploadLog[Val(fileUpload).dataset_upload_id] # FileA.stem
    /\ ~IsNil(filePreview) =>
          /\ Val(filePreview).data.stem # FileA.stem
          /\ Val(filePreview).name # TempNameCsv(FileA)
    /\ datasetDescription.name # TempNameCsv(FileA)

\* C2: the response to a request of a file selection that a newer selection
\* or a clear has superseded changes neither FileUpload, FilePreview,
\* DatasetDescription, the preview dialog nor the session id.
C2_StaleIgnored ==
  [][\A t \in tasks :
       (t.op = "select" /\ inputFile # t.file /\ ResponseTo(t))
         => UNCHANGED <<fileUpload, filePreview, datasetDescription, showPreview,
                        sessionId>>]_vars

\* C3: when a step of the pipeline of a file selection or of a sheet
\* confirmation fails, the status of the FileUpload is error, with a
\* message, once the handler has returned.
C3_FailureIsError ==
  [][\A t \in tasks :
       (t.op \in {"select", "confirm"} /\ FailureOf(t) /\ ~IsNil(fileUpload))
         => (Status(fileUpload') = "error" /\ Val(fileUpload').errorMessage # "")]_vars

\* C4: when an error timer fires on a FileUpload that a failure left in the
\* error state, with no user action since, FileUpload is unset and the
\* record is deleted.
C4_TimerClears ==
  [][(quiet /\ Status(fileUpload) = "error"
        /\ (ErrorTimer \/ \E k \in {"clearAll", "notif"} : DetachedTimer(k)))
       => (IsNil(fileUpload') /\ IsNil(lastUploadedFile'))]_vars

\* C5: the record lastUploadedFile is created or overwritten by an accepted
\* commit only.
C5_WrittenByCommitOnly ==
  [][(lastUploadedFile' # lastUploadedFile /\ ~IsNil(lastUploadedFile'))
       => \E t \in tasks, rsid \in RespSessions : CommitAccepted(t, rsid)]_vars

\* the answer to checkSessionDataset's request for task t puts the pass in
\* Case B (server custom, no record) or in Case C (server not custom, the
\* FileUpload of the moment the session id changed is success)
CaseB(t) == srv[t.sid].custom /\ IsNil(lastUploadedFile)
CaseC(t) == ~srv[t.sid].custom /\ t.cap.st = "success"

\* C6: a reconciliation pass that is answered in Case B or in Case C sets
\* the mismatch flag, whatever the FileUpload was when the session id changed.
C6_MismatchFlagged ==
  [][\A t \in tasks :
       (t.op = "e2" /\ (CaseB(t) \/ CaseC(t)) /\ checkSessionDataset(t, TRUE))
         => datasetMismatch']_vars

\* C7: while the mismatch flag stays set, the status of the FileUpload does
\* not become success.
C7_NoSuccessWhileMismatch ==
  [][(datasetMismatch /\ datasetMismatch' /\ Status(fileUpload) # "success")
       => Status(fileUpload') # "success"]_vars

\* C8: "keep" in the popup of a flagged mismatch does not invoke the
\* default-dataset path.
C8_KeepNeverDefault ==
  [][(datasetMismatch /\ handleDatasetReset(TRUE))
       => \A t \in tasks' \ tasks : t.op \notin DefaultOps]_vars

C10_MissingMetadataRefused ==
  [][((datasetDescription.name = <<>> \/ datasetDescription.description = "")
        /\ handleUploadWithDescription)
       => /\ tasks' = tasks /\ srv' = srv /\ uploadLog' = uploadLog
          /\ UNCHANGED <<fileUpload, lastUploadedFile, showPreview, filePreview>>]_vars
\* the commit has just been refused: its notice is up, the dialog is open
C10_Refused ==
  /\ errorNotification = "Missing information"
  /\ showPreview
  /\ datasetDescription.name = <<>> \/ datasetDescription.description = ""

\* the commit button is pressed with a name and a description
CommitPressed ==
  /\ datasetDescription.name # <<>> /\ datasetDescription.description # ""
  /\ handleUploadWithDescription
\* the commit was refused: nothing was sent, the FileUpload and the record
\* are gone, the file input is empty and the dialog is closed
StaleHandle ==
  /\ tasks' = tasks /\ srv' = srv /\ uploadLog' = uploadLog
  /\ IsNil(fileUpload') /\ IsNil(lastUploadedFile') /\ IsNil(inputFile')
  /\ ~showPreview'

\* C11 (as stated): a commit of a file of zero bytes and without modification
\* time is refused with StaleHandle, wherever the file is taken from.
C11_ZeroByteRefused ==
  [][(/\ ~IsNil(actualFile)
      /\ Val(actualFile).size = 0 /\ Val(actualFile).lastModified = 0
      /\ CommitPressed)
       => StaleHandle]_vars
\* C11 (amended): a commit of a file of zero bytes and without modification
\* time that is taken from the FileUpload, the file input holding no file, is
\* refused with StaleHandle.
C11_StaleHandleRefused ==
  [][(/\ IsNil(inputFile) /\ ~IsNil(fileUpload)
      /\ Val(fileUpload).file.size = 0 /\ Val(fileUpload).file.lastModified = 0
      /\ CommitPressed)
       => StaleHandle]_vars
\* the placeholder of the epoch record was previewed with the eye button and
\* its commit refused: the session still serves the preview's upload, the
\* FileUpload and the record are gone
C11_StaleRefused ==
  /\ events = 2 /\ tasks = {}
  /\ uploadLog = <<UserName>>
  /\ ~IsNil(filePreview) /\ Val(filePreview).data.stem = UserName
  /\ IsNil(fileUpload) /\ IsNil(lastUploadedFile) /\ IsNil(inputFile)
  /\ ~showPreview

\* C12: a commit of a placeholder, the zero-byte handle the FileUpload holds
\* after a restore from the record or a synthesis from the session info (the
\* file input holding no file), is refused with StaleHandle.
C12_PlaceholderRefused ==
  [][(/\ IsNil(inputFile) /\ ~IsNil(fileUpload)
      /\ Val(fileUpload).file.size = 0
      /\ CommitPressed)
       => StaleHandle]_vars

\* C13: when the commit of a spreadsheet of which the user picked and
\* confirmed the sheet Sheet2 has succeeded, the record holds the spreadsheet
\* flag and selectedSheet = Sheet2.
C13_RecordKeepsSheet ==
  [][\A t \in tasks, rsid \in RespSessions :
       (t.cap.isExcel /\ t.cap.sel = "Sheet2" /\ CommitAccepted(t, rsid))
         => /\ ~IsNil(lastUploadedFile')
            /\ Val(lastUploadedFile').extra =
                  Some([isExcel |-> TRUE, selectedSheet |-> "Sheet2"])]_vars

\* the final upload of a selected CSV file is answered with success
CsvCommitted(t) ==
  /\ t.op = "commit" /\ ~IsNil(t.file) /\ t.file = inputFile
  /\ ~isExcelFile(t)
  /\ \E rsid \in RespSessions : CommitAccepted(t, rsid)
\* the name of the stored record
RecordName(ls) == FullName(Val(ls))
WithCsv(name) == IF EndsWithCsv(name) THEN name ELSE name \o <<".", "csv">>

\* C14 (as stated): after the commit of a selected CSV file the status is
\* success and the record carries the name of the selected file.
C14_RecordHasFileName ==
  [][\A t \in tasks :
       CsvCommitted(t)
         => /\ Status(fileUpload') = "success"
            /\ ~IsNil(lastUploadedFile')
            /\ RecordName(lastUploadedFile') = FullName(Val(t.file))]_vars
\* C14 (amended): after the commit of a selected CSV file the status is
\* success and the record carries the dataset name the commit was made
\* with, ending in ".csv", the type text/csv and the file's modification time.
C14_RecordHasDatasetName ==
  [][\A t \in tasks :
       CsvCommitted(t)
         => /\ Status(fileUpload') = "success"
            /\ ~IsNil(lastUploadedFile')
            /\ RecordName(lastUploadedFile') = WithCsv(t.name)
            /\ Val(lastUploadedFile').type = TextCsv
            /\ Val(lastUploadedFile').lastModified = Val(t.file).lastModified]_vars
\* a.csv was selected, renamed to "Sales" in the dialog and committed
C14_Committed ==
  /\ inputFile = Some(FileA)
  /\ uploadLog = <<FileA.stem, FileA.stem>>
  /\ uploadSuccess /\ ~showPreview
  /\ Status(fileUpload) = "success"
  /\ ~IsNil(lastUploadedFile)
  /\ RecordName(lastUploadedFile) = UserName \o <<".", "csv">>

\* the kind of a file by the rule of the specification: the extension first,
\* the declared type when the extension decides nothing
Kind(f) ==
  IF Lower(f.ext) = "csv" THEN "CSV"
  ELSE IF Lower(f.ext) \in {"xlsx", "xls"} THEN "Excel"
  ELSE IF f.type \in {TextCsv, AppCsv} THEN "CSV"
  ELSE IF f.type \in {XlsxType, XlsType} THEN "Excel"
  ELSE "Unsupported"
\* what the selection made of the file: the sheet request of a spreadsheet,
\* the upload pipeline of a CSV file, or no request at all
Treated ==
  IF \E t \in tasks' \ tasks : t.pc = "sheets" THEN "Excel"
  ELSE IF \E t \in tasks' \ tasks : t.pc \in {"reset", "upload"} THEN "CSV"
  ELSE "Unsupported"

\* C15: whatever the extension and the declared type of the selected file,
\* the selection treats it as the kind the rule gives it.
C15_ClassifiedByRule ==
  [][\A f \in AnyFiles : handleFileSelect(f) => Treated = Kind(f)]_vars

\* C16: the selection of a file of kind Unsupported ends with the FileUpload
\* in error, an error notification shown and no request issued.
C16_UnsupportedIsError ==
  [][\A f \in AnyFiles :
       (Kind(f) = "Unsupported" /\ handleFileSelect(f))
         => /\ Status(fileUpload') = "error"
            /\ errorNotification' # ""
            /\ tasks' = tasks]_vars

\* C17: when the generation request fails, the description becomes empty if
\* it is the sentinel at that moment and is left as it is otherwise; the name
\* is left as it is.
C17_FailureRevertsSentinelOnly ==
  [][\A t \in tasks :
       (t.op = "gen" /\ GenerateResponse(t, "fail"))
         => /\ datasetDescription'.description =
                  IF datasetDescription.description = Sentinel THEN ""
                  ELSE datasetDescription.description
            /\ datasetDescription'.name = datasetDescription.name]_vars
\* the generation started for a newly selected file has failed: the preview
\* still carries the guidance text, the description is empty, the lock is free
C17_Reverted ==
  /\ events = 1 /\ ~IsNil(inputFile)
  /\ showPreview /\ ~IsNil(filePreview) /\ Val(filePreview).description = Placeholder
  /\ datasetDescription.description = ""
  /\ ~isGeneratingDescription /\ \A t \in tasks : t.op # "gen"

\* the user closes the detail dialog, leaves the sheet selector or selects a
\* file (clearFile, 909-915, has no caller)
Destructive ==
  \/ \E d \in BOOLEAN : ClosePreview(d)
  \/ \E c \in BOOLEAN : CloseSheetSelector(c)
  \/ \E f \in InputFiles : handleFileSelect(f)

\* C18: while the generation lock is held, no such action of the user closes
\* the detail dialog or leaves the FileUpload unset.
C18_LockRefuses ==
  [][(isGeneratingDescription /\ Destructive)
       => /\ showPreview => showPreview'
          /\ ~IsNil(fileUpload) => ~IsNil(fileUpload')]_vars

\* C19: no upload, commit or session update has carried the sentinel as its
\* description: no session of the backend holds it.  (The record has no
\* description.)
C19_SentinelNeverSent == \A s \in Sessions : srv[s].desc # Sentinel

\* the passes of one of the two [sessionId] effects that are in progress for
\* session s: the chat-switch effect with its preview request, or
\* checkSessionDataset
PassesOf(ops, s) == {t \in tasks : t.op \in ops /\ t.sid = s}

\* C20: for a session id, at most one pass of the chat-switch effect and at
\* most one pass of checkSessionDataset is in progress.
C20_OnePassPerSession ==
  \A s \in Sessions :
    /\ Cardinality(PassesOf({"e1", "e1preview"}, s)) <= 1
    /\ Cardinality(PassesOf({"e2"}, s)) <= 1

\* C21: a chat-switch pass answered in Case A (server custom, a record
\* stored) leaves the FileUpload success with the record's name, declared
\* type and modification time; when its preview re-fetch fails, FileUpload,
\* FilePreview and DatasetDescription stay as they are.
C21_CaseARestores ==
  [][\A t \in tasks :
       /\ (/\ t.op = "e1" /\ srv[t.sid].custom /\ ~IsNil(lastUploadedFile)
           /\ SessionInfoResponse(t, TRUE))
            => /\ Status(fileUpload') = "success"
               /\ FullName(Val(fileUpload').file) = RecordName(lastUploadedFile)
               /\ Val(fileUpload').file.type = Val(lastUploadedFile).type
               /\ Val(fileUpload').file.lastModified = Val(lastUploadedFile).lastModified
       /\ (t.op = "e1preview" /\ RestorePreviewResponse(t, FALSE))
            => UNCHANGED <<fileUpload, filePreview, datasetDescription>>]_vars
\* the pass that followed an upload answered with session s2 was itself
\* answered in Case A and its re-fetch is outstanding: the FileUpload is the
\* record's placeholder
C21_Restored ==
  /\ \E t \in tasks : t.op = "e1preview" /\ t.sid = "s2"
  /\ sessionId = "s2" /\ Len(uploadLog) > 0
  /\ Status(fileUpload) = "success" /\ ~IsNil(lastUploadedFile)
  /\ Val(fileUpload).file = MockFromInfo(Val(lastUploadedFile))

\* a pass of either [sessionId] effect is answered "not custom" while the
\* FileUpload is not success
CaseD(t) ==
  /\ t.op \in {"e1", "e2"} /\ ~srv[t.sid].custom
  /\ Status(fileUpload) # "success"
  /\ SessionInfoResponse(t, TRUE) \/ checkSessionDataset(t, TRUE)

\* C22: a pass answered in Case D leaves the record deleted and the
\* FileUpload unset, and raises neither the mismatch flag nor the popup.
C22_CaseDSteady ==
  [][\A t \in tasks :
       CaseD(t)
         => /\ IsNil(fileUpload') /\ IsNil(lastUploadedFile')
            /\ datasetMismatch' => datasetMismatch
            /\ showDatasetResetPopup' => showDatasetResetPopup]_vars

\* the status of the FileUpload a handler was started with
StatusAtStart(t) == IF t.cap.st = "null" THEN "unset" ELSE t.cap.st

\* C23: when the default-dataset fetch of handlePreviewDefaultDataset or of
\* handleSilentDefaultDataset fails, the FileUpload is what it was when the
\* handler was called, and the failure itself changes neither FileUpload,
\* the record, FilePreview, DatasetDescription, the mismatch flag nor the
\* preview dialog.
C23_FailureChangesNothing ==
  [][\A t \in tasks :
       (t.op \in {"default", "silent"} /\ DefaultFailed(t))
         => /\ Status(fileUpload') = StatusAtStart(t)
            /\ UNCHANGED <<fileUpload, lastUploadedFile, filePreview,
                           datasetDescription, datasetMismatch, showPreview>>]_vars

\* C24: the FilePreview a sheet confirmation leaves is determined by the
\* file and the sheet alone (its rows, the name made of both, the guidance
\* text), and a confirmation that fails leaves the FilePreview as it is: the
\* same sheet of the same file confirmed again leaves the same FilePreview.
C24_ConfirmIdempotent ==
  [][\A t \in tasks :
       /\ (t.op = "confirm" /\ PreviewResponse(t))
            => filePreview' =
                 Some([data |-> [stem |-> Val(t.file).stem, sheet |-> t.sheet],
                       name |-> Val(t.file).stem \o <<" - ", t.sheet>>,
                       description |-> Placeholder])
       /\ (t.op = "confirm" /\ \E m \in {"upload rejected", "preview failed"} :
                                  PipelineFailed(t, m))
            => UNCHANGED filePreview]_vars
\* Sheet1 of b.xlsx was confirmed, a description generated for it, the
\* dialog closed, the selector opened again with "Change" and Sheet1
\* confirmed a second time: the FilePreview is that of the first time
C24_ConfirmedTwice ==
  /\ events = 5 /\ tasks = {}
  /\ uploadLog = <<FileB.stem, FileB.stem>>
  /\ showPreview /\ ~showSheetSelector
  /\ datasetDescription.description = GenText
  /\ filePreview = Some([data |-> [stem |-> FileB.stem, sheet |-> "Sheet1"],
                         name |-> <<"b", " - ", "Sheet1">>,
                         description |-> Placeholder])

\* C25: in every state the FileUpload carries an error message if and only
\* if its status is error.
C25_MessageIffError ==
  ~IsNil(fileUpload) =>
    (Val(fileUpload).errorMessage # "" <=> Val(fileUpload).status = "error")

\* C26: in every state a FileUpload with a selected sheet has the list of
\* sheets, and the selected sheet is one of them.
C26_SelectedInSheets ==
  (~IsNil(fileUpload) /\ Val(fileUpload).selectedSheet # "") =>
    \E i \in 1..Len(Val(fileUpload).sheets) :
      Val(fileUpload).sheets[i] = Val(fileUpload).selectedSheet

\* C27: when the final upload of a commit is accepted, the preview dialog is
\* closed, the FileUpload is success and holds the committed file, the
\* success indicator is shown with its timer armed, and no timer of an
\* earlier commit is pending that would clear the indicator before its time.
C27_CommitShowsSuccess ==
  [][\A t \in tasks, rsid \in RespSessions :
       (t.op = "commit" /\ ~IsNil(t.file) /\ CommitAccepted(t, rsid))
         => /\ ~showPreview'
            /\ Status(fileUpload') = "success"
            /\ Val(fileUpload').file = UpdatedFile(t.name, Val(t.file))
            /\ uploadSuccess' /\ timers'.banner > 0
            /\ timers.banner = 0]_vars

\* C28: neither the commit handler, whatever it refuses, nor the failure of
\* its request arms a timer that dismisses a notice.
C28_NoAutoDismiss ==
  [][(handleUploadWithDescription \/ \E t \in tasks : CommitFailed(t))
       => /\ timers'.ref \in {"", timers.ref}
          /\ timers'.detNotif = timers.detNotif
          /\ timers'.detClear = timers.detClear]_vars

\* C29: once a new action of the class that shows errors has started (a
\* selection, a confirmation, a preview or a commit), no error timer armed
\* before it is pending: none can fire afterwards and clear the FileUpload,
\* the record or the notification of the new action.  Once a new file is
\* selected, no settle timer of an earlier upload is pending.
C29_SupersededTimersCancelled ==
  [][/\ (\/ \E f \in InputFiles \cup {FileE} : handleFileSelect(f)
          \/ handleSheetSelectionConfirm
          \/ PreviewAgain
          \/ CommitPressed)
            => (timers'.detClear = 0 /\ timers'.detNotif = 0)
     /\ (\E f \in InputFiles \cup {FileE} : handleFileSelect(f))
            => timers'.settle = {}]_vars

\* C30: the settle timer that issues the automatic generation call is armed
\* by the preview response of a new dataset only, when the description it
\* leaves is the guidance text and its file is still the selected one; a
\* failed upload or preview arms none.
C30_AutoGenerateOnce ==
  [][\A t \in tasks :
       /\ (/\ t.op \in PipelineOps /\ t.sid # NoSession
           /\ PreviewResponse(t) /\ timers'.settle # timers.settle)
            => /\ t.isNew
               /\ datasetDescription'.description = Placeholder
               /\ t.file = inputFile
       /\ (t.op \in PipelineOps /\ \E m \in {"upload rejected", "preview failed"} :
                                     PipelineFailed(t, m))
            => timers'.settle = timers.settle]_vars

\* C31: with a session id, the first request of a file selection is the
\* session reset; the answer to the reset, failed or not, is followed by the
\* upload request; a preview request is issued by an accepted upload only;
\* a failing step issues no further request.
C31_StepsInOrder ==
  [][/\ \A f \in InputFiles :
          (sessionId # NoSession /\ handleFileSelect(f))
            => \A u \in tasks' \ tasks : u.pc = "reset"
     /\ \A t \in tasks :
          /\ (t.op = "select" /\ \E ok \in BOOLEAN : ResetResponse(t, ok))
               => tasks' \ tasks = {[t EXCEPT !.pc = "upload"]}
          /\ (t.op = "select" /\ FailureOf(t)) => tasks' \subseteq tasks
     /\ \A u \in tasks' \ tasks :
          (u.op = "select" /\ u.pc = "preview")
            => \E t \in tasks, rsid \in RespSessions : UploadAccepted(t, rsid)]_vars

\* C32: when the sheet enumeration of a selected spreadsheet fails or finds
\* no sheet, the FileUpload is in error and no request follows; when it
\* succeeds, the first sheet is the selected one, and no request is issued
\* and the preview dialog stays closed.  The upload and preview requests
\* are started by the Continue button only, and the preview dialog is opened
\* by a confirmation only.
C32_SheetsBeforePreview ==
  [][/\ \A t \in tasks :
          (t.op = "select" /\ t.pc = "sheets" /\ ~IsNil(fileUpload))
            => /\ \A ok \in BOOLEAN :
                    (SheetsResponse(t, ok) /\ (~ok \/ SheetsOf(Val(t.file)) = <<>>))
                      => /\ Status(fileUpload') = "error"
                         /\ Val(fileUpload').errorMessage # ""
                         /\ tasks' = tasks \ {t}
                         /\ ~showPreview' /\ ~showSheetSelector'
               /\ (SheetsResponse(t, TRUE) /\ SheetsOf(Val(t.file)) # <<>>)
                      => /\ Val(fileUpload').sheets = SheetsOf(Val(t.file))
                         /\ Val(fileUpload').selectedSheet = SheetsOf(Val(t.file))[1]
                         /\ tasks' = tasks \ {t}
                         /\ ~showPreview' /\ showSheetSelector'
     /\ (tasks = {} /\ \E u \in tasks' : u.pc \in {"reset", "upload", "preview"})
          => handleSheetSelectionConfirm
     /\ (showPreview' /\ ~showPreview) => \E t \in tasks : t.op = "confirm"]_vars
\* the sheets of b.xlsx have arrived: the selector is open on Sheet1, nothing
\* was uploaded and no request is outstanding
C32_AwaitingConfirmation ==
  /\ inputFile = Some(FileB) /\ events = 1 /\ tasks = {}
  /\ showSheetSelector /\ ~showPreview
  /\ uploadLog = <<>>
  /\ ~IsNil(fileUpload) /\ Val(fileUpload).selectedSheet = "Sheet1"

\* C33: a sheet confirmation supersedes the confirmations still pending: after
\* the Continue button the only pending confirmation is the one just made.
C33_LaterSupersedes ==
  [][handleSheetSelectionConfirm
       => \A t \in tasks' :
            (t.op = "confirm")
              => t = StartPipeline("confirm", Val(fileUpload).file,
                                   Val(fileUpload).selectedSheet, TRUE)]_vars

\* C34: a commit made while no FileUpload is present issues the session
\* update and no other request.
C34_DefaultCommitUpdates ==
  [][(IsNil(fileUpload) /\ ~MissingMetadata /\ handleUploadWithDescription)
       => \A u \in tasks' \ tasks : u.op = "commit" /\ u.pc = "update"]_vars

\* C35: the commit of a spreadsheet whose confirmed sheet is the one on
\* preview starts with the session reset and carries the final name, the
\* final description and that sheet.
C35_CommitCarriesSheet ==
  [][(/\ handleUploadWithDescription /\ ~MissingMetadata
      /\ sessionId # NoSession
      /\ ~IsNil(actualFile) /\ isExcelByExtension(Val(actualFile))
      /\ ~IsNil(filePreview)
      /\ Val(filePreview).data.stem = Val(actualFile).stem
      /\ Val(filePreview).data.sheet # "")
       => \A u \in tasks' \ tasks :
            /\ u.op = "commit" /\ u.pc = "reset"
            /\ u.name = datasetDescription.name
            /\ u.desc = datasetDescription.description
            /\ commitSheet(u) = Val(filePreview).data.sheet]_vars

\* C36: an answer to a request of the session effects leaves a FileUpload
\* that holds a real file with that file, its sheets, its selected sheet and
\* its upload id (or clears it), and turns no loading or failed FileUpload
\* into a successful one.
C36_RestoreKeepsRealFile ==
  [][\A t \in tasks, ok \in BOOLEAN :
       (SessionInfoResponse(t, ok) \/ RestorePreviewResponse(t, ok)
          \/ checkSessionDataset(t, ok))
         => /\ (~IsNil(fileUpload) /\ Val(fileUpload).file.size > 0 /\ ~IsNil(fileUpload'))
                 => /\ Val(fileUpload').file = Val(fileUpload).file
                    /\ Val(fileUpload').isExcel = Val(fileUpload).isExcel
                    /\ Val(fileUpload').sheets = Val(fileUpload).sheets
                    /\ Val(fileUpload').selectedSheet = Val(fileUpload).selectedSheet
                    /\ Val(fileUpload').dataset_upload_id = Val(fileUpload).dataset_upload_id
            /\ (Status(fileUpload) \in {"loading", "error"})
                 => Status(fileUpload') # "success"]_vars

\* C37: with no request outstanding, no timer pending and the mismatch flag
\* clear, the FileUpload is successful exactly when the server session of the
\* current session id holds a custom dataset.
C37_ClientAgreesWithServer ==
  (/\ tasks = {} /\ timers = NoTimers
   /\ ~datasetMismatch
   /\ sessionId # NoSession)
    => (Status(fileUpload) = "success" <=> srv[sessionId].custom)

\* C38: the generation scheduled by the preview of a new upload is bound to
\* the session that accepted the upload (the id returned by the upload if
\* there is one, else the id the upload was sent with), and when its timer
\* fires a generate request is issued against that session.
C38_GenerateForUploadSession ==
  [][/\ \A t \in tasks :
          (t.op \in PipelineOps /\ t.pc = "preview" /\ PreviewResponse(t))
            => \A x \in timers'.settle \ timers.settle :
                 x.sid = IF t.rsid # NoSession THEN t.rsid ELSE t.sid
     /\ \A x \in timers.settle :
          SettleTimer(x)
            => \E g \in tasks' : g.op = "gen" /\ g.sid = x.sid]_vars

\* C39: at most one generate request is outstanding, and the generation lock
\* is held while one is.
C39_OneGenerateUnderLock ==
  /\ Cardinality({t \in tasks : t.op = "gen"}) <= 1
  /\ (\E t \in tasks : t.op = "gen") => isGeneratingDescription

\* C40: when the response to a generate request has released the lock, the
\* description is no longer the generating sentinel.
C40_SentinelGoesWithLock ==
  [][\A t \in tasks, o \in {"text", "empty", "fail"} :
       (t.op = "gen" /\ GenerateResponse(t, o))
         => (~isGeneratingDescription' /\ datasetDescription'.description # Sentinel)]_vars
====
